---- MODULE Spec2Model ----
(***************************************************************************)
(* Comparison-artifact cache and library-index synchronisation of          *)
(* Sino-US-Pulse (src/services/geminiService.ts).                          *)
(*                                                                         *)
(* The object store (R2) holds one JSON body per artifact key plus one     *)
(* shared index document.  fetchComparisonData looks an artifact up by its *)
(* public URL, falls through to the generation backend, and starts a       *)
(* detached write-back made of two concurrent tasks (uploadToR2 and        *)
(* updateLibraryIndex) joined by Promise.all.                              *)
(***************************************************************************)
EXTENDS Integers, Sequences, FiniteSets, TLC

\* ------------------------------------------------------------------ bounds
MaxClock == 2      \* generation responses over a run (each stamps Date.now)

\* --------------------------------------------------------------- constants
DATA_FOLDER == "sino-pulse/v1"
LIBRARY_INDEX_KEY == "sino-pulse/v1/library_index.json"
Languages == {"en", "zh"}

\* ------------------------------------------------------------------- text
\* A request text is a sequence of characters; a character is a one-glyph
\* string, a CJK ideograph is written by its code point.
UpperChars == <<"A","B","C","D","E","F","G","H","I","J","K","L","M",
                "N","O","P","Q","R","S","T","U","V","W","X","Y","Z">>
LowerChars == <<"a","b","c","d","e","f","g","h","i","j","k","l","m",
                "n","o","p","q","r","s","t","u","v","w","x","y","z">>
DigitChars == {"0","1","2","3","4","5","6","7","8","9"}
SpaceChars == {" ", "\t", "\n"}
CJKChars == {"U+4E2D", "U+4EBA", "U+5143", "U+5165", "U+53E3", "U+53EF",
             "U+5747", "U+589E", "U+652F", "U+6536", "U+7F8E", "U+914D",
             "U+957F"}

SeqRange(s) == { s[i] : i \in 1..Len(s) }

ToLowerChar(c) ==
    IF \E i \in 1..Len(UpperChars) : UpperChars[i] = c
    THEN LowerChars[CHOOSE i \in 1..Len(UpperChars) : UpperChars[i] = c]
    ELSE c

\* String.prototype.toLowerCase
ToLowerCase(s) == [i \in 1..Len(s) |-> ToLowerChar(s[i])]

RECURSIVE TrimStart(_)
TrimStart(s) ==
    IF s # <<>> /\ Head(s) \in SpaceChars THEN TrimStart(Tail(s)) ELSE s

RECURSIVE TrimEnd(_)
TrimEnd(s) ==
    IF s # <<>> /\ s[Len(s)] \in SpaceChars
    THEN TrimEnd(SubSeq(s, 1, Len(s) - 1)) ELSE s

\* String.prototype.trim
Trim(s) == TrimEnd(TrimStart(s))

\* s.replace(/X+/g, rep): every maximal run of characters of cls becomes rep
RECURSIVE ReplaceRuns(_, _, _)
ReplaceRuns(s, cls, rep) ==
    IF s = <<>> THEN <<>>
    ELSE IF Head(s) \in cls
         THEN IF Len(s) > 1 /\ s[2] \in cls
              THEN ReplaceRuns(Tail(s), cls, rep)
              ELSE rep \o ReplaceRuns(Tail(s), cls, rep)
         ELSE <<Head(s)>> \o ReplaceRuns(Tail(s), cls, rep)

\* s.replace(/[^keep]+/g, rep)
RECURSIVE ReplaceRunsNotIn(_, _, _)
ReplaceRunsNotIn(s, keep, rep) ==
    IF s = <<>> THEN <<>>
    ELSE IF Head(s) \notin keep
         THEN IF Len(s) > 1 /\ s[2] \notin keep
              THEN ReplaceRunsNotIn(Tail(s), keep, rep)
              ELSE rep \o ReplaceRunsNotIn(Tail(s), keep, rep)
         ELSE <<Head(s)>> \o ReplaceRunsNotIn(Tail(s), keep, rep)

KeyChars == SeqRange(LowerChars) \cup DigitChars \cup {"_"} \cup CJKChars

\* a normalisation that leaves the blanks around the text in place
normalizedQueryUntrimmed(query) ==
    ReplaceRunsNotIn(ReplaceRuns(ToLowerCase(query), SpaceChars, <<"_">>),
                     KeyChars, <<>>)

\* query.trim().toLowerCase().replace(/\s+/g,'_')
\*      .replace(/[^a-z0-9_一-龥]+/g,'')
normalizedQuery(query) ==
    ReplaceRunsNotIn(ReplaceRuns(ToLowerCase(Trim(query)), SpaceChars, <<"_">>),
                     KeyChars, <<>>)

\* `${DATA_FOLDER}/${language}/${normalizedQuery}.json`
fileKey(query, language) ==
    [folder |-> DATA_FOLDER, lang |-> language, name |-> normalizedQuery(query)]

\* request texts the model issues: two spellings of one topic, one other topic
TextGdp1 == <<"G","D","P">>
TextGdp2 == <<" ","g","d","p","!"," ">>
TextCo2 == <<"C","O","2"," ","U+4E2D">>
Texts == {TextGdp1, TextGdp2, TextCo2}

\* the (request text, locale) pairs the state machine issues
Requests == {<<TextGdp2, "zh">>, <<TextCo2, "en">>}

Keys == { fileKey(rq[1], rq[2]) : rq \in Requests }
\* fetchComparisonData calls that may be in flight at the same time
Slots == {"s1", "s2"}
SlotNo(s) == IF s = "s1" THEN 1 ELSE 2

\* ------------------------------------------------------------- documents
\* A generation response that parsed: the fields the service reads.  data is
\* the number of samples; the response schema makes data a (possibly empty)
\* array, so it is always present.
DocFull == [title |-> "T1", titleEn |-> "T1", titleZh |-> "Z1",
            category |-> "Economy", data |-> 1]
DocLazy == [title |-> "T2", titleEn |-> "", titleZh |-> "",
            category |-> "Custom", data |-> 0]
GenDocs == {DocFull, DocLazy}
GenFailures == {"backend_error", "empty_response", "unparsable"}

\* placeholders for "no document / no object at the key" and "no index item"
NoDoc == [title |-> "", titleEn |-> "", titleZh |-> "", category |-> "", data |-> -1]
NoKey == [folder |-> "", lang |-> "", name |-> <<>>]
NoItem == [key |-> NoKey, titleZh |-> "", titleEn |-> "", category |-> "",
           lastModified |-> -1]

\* JavaScript truthiness of the `data` member of a parsed body: an array,
\* empty or not, is truthy
TruthyNonEmpty(doc) == doc # NoDoc /\ doc.data > 0

Truthy(doc) == doc # NoDoc /\ doc.data >= 0

\* --------------------------------------------------- the index document
IndexMissing == [kind |-> "missing", items |-> <<>>]
IndexCorrupt == [kind |-> "corrupt", items |-> <<>>]
IndexNoItems == [kind |-> "noitems", items |-> <<>>]

\* an index document that is cut after its first item
IndexOfHead(items) ==
    [kind |-> "list",
     items |-> IF items = <<>> THEN <<>> ELSE <<Head(items)>>]

\* JSON.stringify(index) of an index whose items is the array items
IndexOf(items) == [kind |-> "list", items |-> items]

FindIndexNever(items, key) == 0

\* items.findIndex(i => i.key === key); 0 stands for -1
FindIndex(items, key) ==
    IF \E i \in 1..Len(items) : items[i].key = key
    THEN CHOOSE i \in 1..Len(items) :
            /\ items[i].key = key
            /\ \A j \in 1..(i - 1) : items[j].key # key
    ELSE 0

UpsertItemAppend(items, newItem) == Append(items, newItem)

\* step 2 of updateLibraryIndex: update or append
UpsertItem(items, newItem) ==
    IF FindIndex(items, newItem.key) > 0
    THEN [items EXCEPT ![FindIndex(items, newItem.key)] = newItem]
    ELSE Append(items, newItem)

\* the title fallback of fetchComparisonData.  No request text of Texts
\* normalises to a preset, so getSmartTitles finds none for them.
PresetTitleZh(name) == ""

FillTitles(d, language, name) ==
    LET zh == IF d.titleZh # "" THEN d.titleZh
              ELSE IF language = "zh" THEN d.title
              ELSE PresetTitleZh(name)
        en == IF d.titleEn # "" THEN d.titleEn ELSE d.title
    IN [d EXCEPT !.titleZh = zh, !.titleEn = en]

\* ------------------------------------------------------------------ state
VARIABLES
    store,      \* object store: key -> body written by uploadToR2, or NoBody
    indexDoc,   \* the object at LIBRARY_INDEX_KEY
    now,        \* the clock read by new Date()
    req,        \* per slot: the fetchComparisonData call and its write-back
    archived,   \* keys for which some upload promise has resolved
    isAdmin,    \* App: isUserAdmin(user), passed as 4th argument of each call
    list,       \* the listSavedComparisons call
    byKey,      \* the fetchSavedComparisonByKey call
    calc,       \* the call of a pure helper (key derivation, title repair)
    ui          \* App: the React state and the loadData / loadSavedItem calls

vars == <<store, indexDoc, now, req, archived, isAdmin, list, byKey, calc, ui>>

IdleCalc == [op |-> "none"]

\* loadData / loadSavedItem calls that may overlap
UiSlots == {"r1", "r2"}
UiSlotNo(c) == IF c = "r1" THEN 1 ELSE 2

IdleUiCall == [pc |-> "idle", kind |-> "none", query |-> <<>>,
               forceRefresh |-> FALSE, key |-> NoKey,
               result |-> NoDoc, source |-> "none"]

\* the useState initial values; null is NoDoc, '' is NoKey or the empty text
IdleUi == [data |-> [doc |-> NoDoc, source |-> "none"],
           currentQuery |-> <<>>, activeItemKey |-> NoKey,
           syncState |-> "idle", loading |-> FALSE, error |-> FALSE,
           latest |-> "none",
           calls |-> [c \in UiSlots |-> IdleUiCall]]

IdleList == [pc |-> "idle", language |-> "en", fetch |-> "none",
             listing |-> "none", result |-> <<>>, thrown |-> FALSE]
IdleByKey == [pc |-> "idle", key |-> NoKey, response |-> "none",
              data |-> NoDoc, source |-> "none", s3 |-> "none"]

IdleReq == [pc |-> "idle", query |-> <<>>, language |-> "en",
            forceRefresh |-> FALSE,
            data |-> NoDoc, source |-> "none", err |-> "none",
            uploadPromise |-> "none", upload |-> "none",
            indexTask |-> "none", index |-> <<>>, existingIndex |-> 0,
            newItem |-> NoItem, genCalls |-> 0,
            uploadCalls |-> 0, indexCalls |-> 0,
            miss |-> "none"]

\* ways in which the GET of the public URL fails to deliver a document:
\* fetch throws, the status is neither ok nor 404, response.json() throws
ReadFailures == {"unreachable", "server_error", "unparsable"}

KeyOf(r) == fileKey(r.query, r.language)

Init ==
    /\ store = [k \in Keys |-> NoDoc]
    /\ indexDoc \in {IndexMissing, IndexCorrupt}
    /\ now = 0
    /\ req = [s \in Slots |-> IdleReq]
    /\ archived = {}
    /\ isAdmin = TRUE
    /\ list = IdleList
    /\ byKey = IdleByKey
    /\ calc = IdleCalc
    /\ ui = IdleUi

\* a call has run to completion, background work included
Finished(r) ==
    \/ r.pc = "idle"
    \/ r.pc = "failed"
    \/ /\ r.pc = "returned"
       /\ r.upload \in {"none", "ok", "failed"}
       /\ r.indexTask \in {"none", "done_ok", "done_err"}

\* an entry that looks the key up whatever forceRefresh says
CallIgnoringForce(s, q, l, f) ==
    /\ Finished(req[s])
    /\ \A o \in Slots : Finished(req[o]) => SlotNo(s) <= SlotNo(o)
    /\ req' = [req EXCEPT ![s] =
                 [IdleReq EXCEPT !.pc = "lookup",
                                 !.query = q, !.language = l,
                                 !.forceRefresh = f]]
    /\ UNCHANGED <<store, indexDoc, now, archived, isAdmin, list, byKey, calc, ui>>

\* ------------------------------------------------- fetchComparisonData
\* entry: the key is derived; the 4th argument of the caller (isAdmin) is not
\* a parameter of the function.  pc "generating" is the await of
\* ai.models.generateContent, genCalls the number of backend invocations.
Call(s, q, l, f) ==
    /\ Finished(req[s])
    /\ \A o \in Slots : Finished(req[o]) => SlotNo(s) <= SlotNo(o)
    /\ req' = [req EXCEPT ![s] =
                 [IdleReq EXCEPT !.pc = IF f THEN "generating" ELSE "lookup",
                                 !.query = q, !.language = l,
                                 !.forceRefresh = f,
                                 !.genCalls = IF f THEN 1 ELSE 0]]
    /\ UNCHANGED <<store, indexDoc, now, archived, isAdmin, list, byKey, calc, ui>>

\* a read failure that is thrown to the caller instead of being caught
MissedThrowing(r, net) ==
    IF net \in ReadFailures
    THEN [r EXCEPT !.pc = "failed", !.err = net, !.forceRefresh = FALSE]
    ELSE [r EXCEPT !.pc = "generating", !.genCalls = 1, !.miss = "not_found"]

\* the lookup delivers no document (status 404, another status, or the catch
\* block): control falls through to "2. FETCH"
Missed(r, net) ==
    [r EXCEPT !.pc = "generating", !.genCalls = 1,
              !.miss = IF net = "answered" THEN "not_found" ELSE net]

\* a lookup that re-archives what it has just read
LookupRewriting(s, net) ==
    LET r == req[s]
        body == store[KeyOf(r)]
        hit == net = "answered" /\ body # NoDoc /\ Truthy(body)
    IN /\ r.pc = "lookup"
       /\ req' = [req EXCEPT ![s] =
                    IF hit
                    THEN [r EXCEPT !.pc = "returned", !.data = body,
                                   !.source = "r2", !.forceRefresh = FALSE,
                                   !.uploadPromise = "pending",
                                   !.upload = "pending"]
                    ELSE [r EXCEPT !.pc = "generating", !.genCalls = 1,
                                   !.miss = IF net = "answered"
                                            THEN "not_found" ELSE net]]
       /\ UNCHANGED <<store, indexDoc, now, archived, isAdmin, list, byKey, calc, ui>>

\* 1. READ: GET of the public URL of the key
Lookup(s, net) ==
    LET r == req[s]
        body == store[KeyOf(r)]
        hit == net = "answered" /\ body # NoDoc /\ Truthy(body)
    IN /\ r.pc = "lookup"
       /\ req' = [req EXCEPT ![s] =
                    IF hit
                    THEN [r EXCEPT !.pc = "returned", !.data = body,
                                   !.source = "r2", !.forceRefresh = FALSE]
                    ELSE Missed(r, net)]
       /\ UNCHANGED <<store, indexDoc, now, archived, isAdmin, list, byKey, calc, ui>>

\* a failed generation that is tried a second time before the call fails
GenerateFailRetrying(s, why) ==
    LET r == req[s]
    IN /\ r.pc = "generating"
       /\ req' = [req EXCEPT ![s] =
                    IF r.genCalls < 2
                    THEN [r EXCEPT !.genCalls = r.genCalls + 1]
                    ELSE [r EXCEPT !.pc = "failed", !.err = why,
                                   !.miss = "none", !.forceRefresh = FALSE]]
       /\ UNCHANGED <<store, indexDoc, now, archived, isAdmin, list, byKey, calc, ui>>

\* 2. FETCH: the generation backend fails, or answers nothing or garbage
GenerateFail(s, why) ==
    LET r == req[s]
    IN /\ r.pc = "generating"
       /\ req' = [req EXCEPT ![s] =
                    [r EXCEPT !.pc = "failed", !.err = why, !.miss = "none",
                              !.forceRefresh = FALSE]]
       /\ UNCHANGED <<store, indexDoc, now, archived, isAdmin, list, byKey, calc, ui>>

\* a generation step that awaits the upload before it returns
GenerateAwaitingUpload(s, d) ==
    LET r == req[s]
        result == FillTitles(d, r.language, normalizedQuery(r.query))
    IN /\ r.pc = "generating"
       /\ now < MaxClock
       /\ now' = now + 1
       /\ store' = [store EXCEPT ![KeyOf(r)] = result]
       /\ req' = [req EXCEPT ![s] =
                    [r EXCEPT !.pc = "returned", !.data = result,
                              !.source = "api", !.miss = "none",
                              !.forceRefresh = FALSE,
                              !.uploadPromise = "pending",
                              !.upload = "ok",
                              !.uploadCalls = r.uploadCalls + 1,
                              !.indexTask = "read",
                              !.indexCalls = r.indexCalls + 1,
                              !.newItem = [key |-> KeyOf(r),
                                           titleZh |-> result.titleZh,
                                           titleEn |-> result.titleEn,
                                           category |-> result.category,
                                           lastModified |-> now']]]
       /\ UNCHANGED <<indexDoc, archived, isAdmin, list, byKey, calc, ui>>

\* 2./3. the backend answers a document: titles are filled, the artifact is
\* returned with source 'api' and the two write-back tasks are started
Generate(s, d) ==
    LET r == req[s]
        result == FillTitles(d, r.language, normalizedQuery(r.query))
    IN /\ r.pc = "generating"
       /\ now < MaxClock
       /\ now' = now + 1
       /\ req' = [req EXCEPT ![s] =
                    [r EXCEPT !.pc = "returned", !.data = result,
                              !.source = "api", !.miss = "none",
                              !.forceRefresh = FALSE,
                              !.uploadPromise = "pending",
                              !.upload = "pending",
                              !.uploadCalls = r.uploadCalls + 1,
                              !.indexTask = "read",
                              !.indexCalls = r.indexCalls + 1,
                              !.newItem = [key |-> KeyOf(r),
                                           titleZh |-> result.titleZh,
                                           titleEn |-> result.titleEn,
                                           category |-> result.category,
                                           lastModified |-> now']]]
       /\ UNCHANGED <<store, indexDoc, archived, isAdmin, list, byKey, calc, ui>>

SettleStrict(u, t) ==
    IF u = "failed" \/ t = "done_err" THEN "failed"
    ELSE IF u = "ok" /\ t = "done_ok" THEN "synced"
    ELSE "pending"

\* Promise.all([upload, index]).then(): state of the handle once the upload
\* task is in state u and the index task in state t
Settle(u, t) ==
    IF u = "failed" THEN "failed"
    ELSE IF u = "ok" /\ t \in {"done_ok", "done_err"} THEN "synced"
    ELSE "pending"

\* a write that keeps the title of the body it finds under the key
PutBodyMerging(st, k, d) ==
    [st EXCEPT ![k] = IF st[k] = NoDoc THEN d
                      ELSE [d EXCEPT !.title = st[k].title]]

\* PutObjectCommand({Key: key, Body: JSON.stringify(data)}): the object under
\* the key is replaced as a whole
PutBody(st, k, d) == [st EXCEPT ![k] = d]

\* an upload that is sent once more after a failed PutObject
UploadToR2Retrying(s, ok) ==
    LET r == req[s]
        again == ~ok /\ r.uploadCalls < 2
        u == IF ok THEN "ok" ELSE IF again THEN "pending" ELSE "failed"
        h == Settle(u, r.indexTask)
    IN /\ r.upload = "pending"
       /\ store' = IF ok
                   THEN [store EXCEPT ![KeyOf(r)] = r.data]
                   ELSE store
       /\ req' = [req EXCEPT ![s] =
                    [r EXCEPT !.upload = u, !.uploadPromise = h,
                              !.uploadCalls = IF again THEN r.uploadCalls + 1
                                              ELSE r.uploadCalls]]
       /\ archived' = IF h = "synced" THEN archived \cup {KeyOf(r)} ELSE archived
       /\ UNCHANGED <<indexDoc, now, isAdmin, list, byKey, calc, ui>>

\* uploadToR2: PutObject of the artifact body
UploadToR2(s, ok) ==
    LET r == req[s]
        u == IF ok THEN "ok" ELSE "failed"
        h == Settle(u, r.indexTask)
    IN /\ r.upload = "pending"
       /\ store' = IF ok THEN PutBody(store, KeyOf(r), r.data) ELSE store
       /\ req' = [req EXCEPT ![s] = [r EXCEPT !.upload = u, !.uploadPromise = h]]
       /\ archived' = IF h = "synced" THEN archived \cup {KeyOf(r)} ELSE archived
       /\ UNCHANGED <<indexDoc, now, isAdmin, list, byKey, calc, ui>>

\* an index read whose failure outside the inner try rejects the promise
IndexGetUncaught(s, got) ==
    LET r == req[s]
        thrown == \/ got = "sdk_error"
                  \/ got = "body" /\ indexDoc.kind = "noitems"
        items == IF got = "body" /\ indexDoc.kind = "list"
                 THEN indexDoc.items ELSE <<>>
        t == IF thrown THEN "done_err" ELSE "write"
        h == IF thrown THEN "failed"
             ELSE IF r.uploadPromise = "pending" THEN Settle(r.upload, t)
             ELSE r.uploadPromise
    IN /\ r.indexTask = "read"
       /\ got = "body" => indexDoc.kind # "missing"
       /\ req' = [req EXCEPT ![s] =
                    [r EXCEPT !.indexTask = t,
                              !.existingIndex =
                                  IF thrown THEN 0
                                  ELSE FindIndex(items, r.newItem.key),
                              !.index = IF thrown THEN <<>>
                                        ELSE UpsertItem(items, r.newItem),
                              !.uploadPromise = h]]
       /\ archived' = archived
       /\ UNCHANGED <<store, indexDoc, now, isAdmin, list, byKey, calc, ui>>

\* updateLibraryIndex, steps 1 and 2: GetObject of the index, then the
\* update-or-append on the local copy.  got is what the store answers:
\* "sdk_error" (the SDK import throws), "get_error" (GetObject throws) or
\* "body" (the stored document is returned).
IndexGet(s, got) ==
    LET r == req[s]
        thrown == \/ got = "sdk_error"
                  \/ got = "body" /\ indexDoc.kind = "noitems"
        items == IF got = "body" /\ indexDoc.kind = "list"
                 THEN indexDoc.items ELSE <<>>
        t == IF thrown THEN "done_err" ELSE "write"
        h == IF r.uploadPromise = "pending" THEN Settle(r.upload, t)
             ELSE r.uploadPromise
    IN /\ r.indexTask = "read"
       /\ got = "body" => indexDoc.kind # "missing"
       /\ req' = [req EXCEPT ![s] =
                    [r EXCEPT !.indexTask = t,
                              !.existingIndex =
                                  IF thrown THEN 0
                                  ELSE FindIndex(items, r.newItem.key),
                              !.index = IF thrown THEN <<>>
                                        ELSE UpsertItem(items, r.newItem),
                              !.uploadPromise = h]]
       /\ archived' = IF h = "synced" THEN archived \cup {KeyOf(r)} ELSE archived
       /\ UNCHANGED <<store, indexDoc, now, isAdmin, list, byKey, calc, ui>>

\* an index write whose failure is not caught inside updateLibraryIndex
IndexPutUncaught(s, ok) ==
    LET r == req[s]
        t == IF ok THEN "done_ok" ELSE "done_err"
        h == IF r.uploadPromise = "pending" THEN Settle(r.upload, t)
             ELSE r.uploadPromise
    IN /\ r.indexTask = "write"
       /\ indexDoc' = IF ok THEN IndexOf(r.index) ELSE indexDoc
       /\ req' = [req EXCEPT ![s] =
                    [r EXCEPT !.indexTask = t, !.index = <<>>,
                              !.existingIndex = 0,
                              !.newItem = NoItem,
                              !.uploadPromise = h,
                              !.pc = IF ok THEN r.pc ELSE "failed",
                              !.err = IF ok THEN r.err ELSE "index_failed"]]
       /\ archived' = IF h = "synced" THEN archived \cup {KeyOf(r)} ELSE archived
       /\ UNCHANGED <<store, now, isAdmin, list, byKey, calc, ui>>

\* updateLibraryIndex, step 3: PutObject of the whole index document
IndexPut(s, ok) ==
    LET r == req[s]
        t == IF ok THEN "done_ok" ELSE "done_err"
        h == IF r.uploadPromise = "pending" THEN Settle(r.upload, t)
             ELSE r.uploadPromise
    IN /\ r.indexTask = "write"
       /\ indexDoc' = IF ok THEN IndexOf(r.index) ELSE indexDoc
       /\ req' = [req EXCEPT ![s] = [r EXCEPT !.indexTask = t, !.index = <<>>,
                                              !.existingIndex = 0,
                                              !.newItem = NoItem,
                                              !.uploadPromise = h]]
       /\ archived' = IF h = "synced" THEN archived \cup {KeyOf(r)} ELSE archived
       /\ UNCHANGED <<store, now, isAdmin, list, byKey, calc, ui>>

Next ==
    \/ \E s \in Slots, rq \in Requests, f \in BOOLEAN :
          Call(s, rq[1], rq[2], f)
    \/ \E s \in Slots, net \in {"answered"} \cup ReadFailures : Lookup(s, net)
    \/ \E s \in Slots, why \in GenFailures : GenerateFail(s, why)
    \/ \E s \in Slots, d \in GenDocs : Generate(s, d)
    \/ \E s \in Slots, ok \in BOOLEAN : UploadToR2(s, ok)
    \/ \E s \in Slots, got \in {"sdk_error", "get_error", "body"} : IndexGet(s, got)
    \/ \E s \in Slots, ok \in BOOLEAN : IndexPut(s, ok)

Spec == Init /\ [][Next]_vars

TypeOK ==
    /\ now \in 0..MaxClock
    /\ \A s \in Slots : req[s].pc \in {"idle", "lookup", "generating", "returned", "failed"}
\* the same machine when the signed-in user is not an admin
InitGuest ==
    /\ store = [k \in Keys |-> NoDoc]
    /\ indexDoc \in {IndexMissing, IndexCorrupt}
    /\ now = 0
    /\ req = [s \in Slots |-> IdleReq]
    /\ archived = {}
    /\ isAdmin = FALSE
    /\ list = IdleList
    /\ byKey = IdleByKey
    /\ calc = IdleCalc
    /\ ui = IdleUi

SpecGuest == InitGuest /\ [][Next]_vars

\* ------------------------------------------------------------- readers
\* keys of the objects a reader may meet, in the (lexicographic) order in
\* which ListObjectsV2 returns them
ReadKeySeq == <<fileKey(TextCo2, "en"), fileKey(TextCo2, "zh"), fileKey(TextGdp2, "zh")>>
ReadKeys == SeqRange(ReadKeySeq)

\* index entries and index documents a reader may meet
ReadItems(k) ==
    { [key |-> k, titleZh |-> DocFull.titleZh, titleEn |-> DocFull.titleEn,
       category |-> DocFull.category, lastModified |-> t] : t \in 1..MaxClock }

ReadIndexDocs ==
    {IndexMissing, IndexCorrupt, IndexNoItems, IndexOf(<<>>)}
    \cup { IndexOf(<<e>>) : e \in UNION { ReadItems(k) : k \in ReadKeys } }
    \cup { IndexOf(<<e[1], e[2]>>) :
             e \in { p \in (UNION { ReadItems(k) : k \in ReadKeys })
                            \X (UNION { ReadItems(k) : k \in ReadKeys }) :
                       p[1].key # p[2].key } }

\* a bucket in any state the writers can leave it in, before a reader runs
InitRead ==
    /\ store \in [ReadKeys -> {NoDoc, DocFull}]
    /\ indexDoc \in ReadIndexDocs
    /\ now = MaxClock
    /\ req = [s \in Slots |-> IdleReq]
    /\ archived = {}
    /\ isAdmin = TRUE
    /\ list = IdleList
    /\ byKey = IdleByKey
    /\ calc = IdleCalc
    /\ ui = IdleUi

ToUpperChar(c) ==
    IF \E i \in 1..Len(LowerChars) : LowerChars[i] = c
    THEN UpperChars[CHOOSE i \in 1..Len(LowerChars) : LowerChars[i] = c]
    ELSE c

\* nameWithoutExt.split('_').map(w => w.charAt(0).toUpperCase() + w.slice(1)).join(' ')
DefaultName(name) ==
    [i \in 1..Len(name) |->
        IF name[i] = "_" THEN " "
        ELSE IF i = 1 \/ name[i - 1] = "_" THEN ToUpperChar(name[i])
        ELSE name[i]]

\* a || b on titles
OrElse(a, b) == IF a # "" THEN a ELSE b

RECURSIVE InsertDesc(_, _)
InsertDesc(sorted, x) ==
    IF sorted = <<>> THEN <<x>>
    ELSE IF sorted[Len(sorted)].lastModified >= x.lastModified
         THEN Append(sorted, x)
         ELSE Append(InsertDesc(SubSeq(sorted, 1, Len(sorted) - 1), x),
                     sorted[Len(sorted)])

\* items.sort((a, b) => b.lastModified - a.lastModified), a stable sort
RECURSIVE SortDesc(_)
SortDesc(items) ==
    IF items = <<>> THEN <<>>
    ELSE InsertDesc(SortDesc(SubSeq(items, 1, Len(items) - 1)), items[Len(items)])

\* the map over the sorted index items; getSmartTitles finds no preset for
\* the file names of ReadKeys and passes the stored titles through
FromIndex(items, language) ==
    [i \in 1..Len(items) |->
        [key |-> items[i].key,
         titleZh |-> items[i].titleZh,
         titleEn |-> items[i].titleEn,
         displayName |-> IF language = "zh"
                         THEN OrElse(items[i].titleZh, items[i].titleEn)
                         ELSE OrElse(items[i].titleEn, items[i].titleZh),
         lastModified |-> items[i].lastModified]]

RECURSIVE SelectKeys(_, _, _)
SelectKeys(keys, st, language) ==
    IF keys = <<>> THEN <<>>
    ELSE IF Head(keys).lang = language /\ st[Head(keys)] # NoDoc
         THEN <<Head(keys)>> \o SelectKeys(Tail(keys), st, language)
         ELSE SelectKeys(Tail(keys), st, language)

\* the Contents of ListObjectsV2 under `${DATA_FOLDER}/${language}/`, with
\* the LastModified the store reports for each object, filtered, sorted and
\* mapped; titles are rebuilt from the file name
FromListing(st, language, times) ==
    LET found == SelectKeys(ReadKeySeq, st, language)
        objs == [i \in 1..Len(found) |->
                    [key |-> found[i],
                     titleZh |-> DefaultName(found[i].name),
                     titleEn |-> DefaultName(found[i].name),
                     displayName |-> DefaultName(found[i].name),
                     lastModified |-> times[found[i]]]]
    IN SortDesc(objs)

ListNoCatch(outcome) == outcome

\* the try/catch around the body of listSavedComparisons
ListCatch(outcome) ==
    IF outcome.thrown THEN [result |-> <<>>, thrown |-> FALSE] ELSE outcome

\* fetchLibraryIndex: what the caller gets for the state of the GET
FetchLibraryIndex(net) ==
    IF net = "answered" /\ indexDoc.kind \in {"list", "noitems"}
    THEN indexDoc
    ELSE IndexOf(<<>>)

ListCall(l) ==
    /\ list.pc \in {"idle", "done"}
    /\ list' = [IdleList EXCEPT !.pc = "fetching_index", !.language = l]
    /\ UNCHANGED <<store, indexDoc, now, req, archived, isAdmin, byKey, calc, ui>>

\* listSavedComparisons up to the index branch: reading items of a document
\* without an items list throws
ListFetchIndex(net) ==
    LET index == FetchLibraryIndex(net)
        out == ListCatch(IF index.kind = "noitems"
                         THEN [result |-> <<>>, thrown |-> TRUE]
                         ELSE [result |-> FromIndex(SortDesc(index.items), list.language),
                               thrown |-> FALSE])
    IN /\ list.pc = "fetching_index"
       /\ list' = IF index.kind = "list" /\ Len(index.items) = 0
                  THEN [list EXCEPT !.pc = "listing", !.fetch = net]
                  ELSE [list EXCEPT !.pc = "done", !.fetch = net,
                                    !.result = out.result,
                                    !.thrown = out.thrown]
       /\ UNCHANGED <<store, indexDoc, now, req, archived, isAdmin, byKey, calc, ui>>

\* the fallback: ListObjectsV2 of the language folder
ListObjects(outcome, times) ==
    LET out == ListCatch(IF outcome = "error"
                         THEN [result |-> <<>>, thrown |-> TRUE]
                         ELSE [result |-> FromListing(store, list.language, times),
                               thrown |-> FALSE])
    IN /\ list.pc = "listing"
       /\ list' = [list EXCEPT !.pc = "done", !.listing = outcome,
                               !.result = out.result, !.thrown = out.thrown]
       /\ UNCHANGED <<store, indexDoc, now, req, archived, isAdmin, byKey, calc, ui>>

\* a fetch by key that first looks the key up in the index
FetchSavedComparisonByKeyViaIndex(k, net) ==
    LET ok == /\ net = "answered" /\ store[k] # NoDoc
              /\ indexDoc.kind = "list" /\ \E i \in 1..Len(indexDoc.items) :
                                              indexDoc.items[i].key = k
    IN /\ \E auth \in {"up", "down"} :
            byKey' = [pc |-> IF ok THEN "returned" ELSE "failed",
                      key |-> k,
                      response |-> IF net # "answered" THEN net
                                   ELSE IF store[k] # NoDoc THEN "ok"
                                   ELSE "not_found",
                      data |-> IF ok THEN store[k] ELSE NoDoc,
                      source |-> IF ok THEN "r2" ELSE "none",
                      s3 |-> auth]
       /\ UNCHANGED <<store, indexDoc, now, req, archived, isAdmin, list, calc, ui>>

\* fetchSavedComparisonByKey: one GET of the public URL of the key and
\* nothing else.  s3 records whether the authenticated endpoint (R2_ENDPOINT,
\* a host of its own) would have answered a GetObject during the call; the
\* function never asks it.
FetchSavedComparisonByKey(k, net) ==
    LET ok == net = "answered" /\ store[k] # NoDoc
    IN /\ \E auth \in {"up", "down"} :
            byKey' = [pc |-> IF ok THEN "returned" ELSE "failed",
                      key |-> k,
                      response |-> IF net # "answered" THEN net
                                   ELSE IF store[k] # NoDoc THEN "ok"
                                   ELSE "not_found",
                      data |-> IF ok THEN store[k] ELSE NoDoc,
                      source |-> IF ok THEN "r2" ELSE "none",
                      s3 |-> auth]
       /\ UNCHANGED <<store, indexDoc, now, req, archived, isAdmin, list, calc, ui>>

NextRead ==
    \/ \E l \in Languages : ListCall(l)
    \/ \E net \in {"answered", "unreachable"} : ListFetchIndex(net)
    \/ \E outcome \in {"error", "ok"}, times \in [ReadKeys -> 1..MaxClock] :
          ListObjects(outcome, times)
    \/ \E k \in ReadKeys, net \in {"answered", "unreachable"} :
          FetchSavedComparisonByKey(k, net)

SpecRead == InitRead /\ [][NextRead]_vars

\* ---------------------------------------------------------------- claims
ItemsAt(doc, key) == { i \in 1..Len(doc.items) : doc.items[i].key = key }

\* C1 (cache idempotence): a call with forceRefresh = false made by an admin
\* for a key whose write-back has completed successfully leaves its lookup,
\* when the store answers the GET, by returning the stored body with source
\* 'r2', no upload promise and no invocation of the generation backend; only
\* an unanswered GET sends it on to the backend.
C1_CacheIdempotence ==
    [][\A s \in Slots :
         (/\ isAdmin
          /\ req[s].pc = "lookup"
          /\ ~req[s].forceRefresh
          /\ KeyOf(req[s]) \in archived
          /\ req'[s] # req[s])
         => \/ /\ req'[s].pc = "returned"
               /\ req'[s].source = "r2"
               /\ req'[s].data = store[KeyOf(req[s])]
               /\ req'[s].genCalls = 0
               /\ req'[s].uploadPromise = "none"
            \/ /\ req'[s].pc = "generating"
               /\ req'[s].miss \in ReadFailures]_vars

C1_Witness ==
    \E s \in Slots :
        /\ req[s].pc = "returned"
        /\ req[s].source = "r2"
        /\ req[s].genCalls = 0
        /\ KeyOf(req[s]) \in archived
        /\ req[s].data = store[KeyOf(req[s])]

\* C2 (authorization gate on forced refresh): a call with forceRefresh = true
\* made while the caller may not generate (isAdmin false) never invokes the
\* generation backend.
C2_ForcedRefreshGate ==
    \A s \in Slots :
        (~isAdmin /\ req[s].forceRefresh) => req[s].genCalls = 0

\* C3 (non-blocking write-back): when generation succeeds the call returns
\* the artifact with the upload promise still pending and both write-back
\* tasks not yet run (store and index untouched by the returning step), and
\* the promise settles only in a later step, after the return.
C3_NonBlockingWriteBack ==
    [][\A s \in Slots :
         /\ (req[s].pc = "generating" /\ req'[s].pc = "returned")
            => /\ req'[s].source = "api"
               /\ req'[s].uploadPromise = "pending"
               /\ req'[s].upload = "pending"
               /\ req'[s].indexTask = "read"
               /\ store' = store
               /\ indexDoc' = indexDoc
         /\ (/\ req'[s].uploadPromise \in {"synced", "failed"}
             /\ req[s].uploadPromise # req'[s].uploadPromise)
            => /\ req[s].pc = "returned"
               /\ req[s].source = "api"
               /\ req[s].uploadPromise = "pending"
               /\ req'[s].data = req[s].data]_vars

C3_Witness ==
    \E s \in Slots :
        /\ req[s].pc = "returned"
        /\ req[s].source = "api"
        /\ req[s].uploadPromise = "pending"
        /\ req[s].upload = "pending"
        /\ req[s].indexTask = "read"

C5_IndexEntryHasBody ==
    indexDoc.kind = "list"
        => \A i \in 1..Len(indexDoc.items) : store[indexDoc.items[i].key] # NoDoc

\* C6 (idempotent upsert): an index upsert that stores the index leaves
\* exactly one entry for the key of its item, and that entry is the item
\* just upserted (its titles, category and lastModified), also when the
\* index read already held an entry for that key with other titles.
C6_IdempotentUpsert ==
    [][\A s \in Slots :
         (req[s].indexTask = "write" /\ req'[s].indexTask = "done_ok")
         => /\ indexDoc'.kind = "list"
            /\ Cardinality(ItemsAt(indexDoc', req[s].newItem.key)) = 1
            /\ \E i \in 1..Len(indexDoc'.items) :
                  indexDoc'.items[i] = req[s].newItem]_vars

C6_Witness ==
    \E s \in Slots, o \in Slots :
        /\ s # o
        /\ req[s].indexTask = "done_ok"
        /\ req[o].indexTask = "done_ok"
        /\ KeyOf(req[s]) = KeyOf(req[o])
        /\ req[s].data.titleEn # req[o].data.titleEn
        /\ indexDoc.kind = "list"
        /\ Cardinality(ItemsAt(indexDoc, KeyOf(req[s]))) = 1
        /\ \E i \in 1..Len(indexDoc.items) :
              /\ indexDoc.items[i].key = KeyOf(req[s])
              /\ indexDoc.items[i].lastModified = 2
              /\ indexDoc.items[i].titleEn \in {req[s].data.titleEn, req[o].data.titleEn}

\* C7 (index key-uniqueness): started from a missing or unreadable index,
\* the stored index document never holds two entries with the same key, under
\* every interleaving of write-backs and every failed read or write.
C7_IndexKeysUnique ==
    indexDoc.kind = "list"
        => \A i, j \in 1..Len(indexDoc.items) :
              indexDoc.items[i].key = indexDoc.items[j].key => i = j

C7_Witness ==
    /\ indexDoc.kind = "list"
    /\ Len(indexDoc.items) = 2
    /\ \E s \in Slots, o \in Slots :
          /\ req[s].indexTask = "done_ok"
          /\ req[o].indexTask = "done_ok"
          /\ KeyOf(req[s]) # KeyOf(req[o])

\* C9 (hit shape): a call that returned with source 'r2' has no upload
\* promise, invoked no generation and started no store or index write; a
\* call that returned with source 'api' has an upload promise.
C9_HitShape ==
    \A s \in Slots :
        /\ (req[s].pc = "returned" /\ req[s].source = "r2")
            => /\ req[s].uploadPromise = "none"
               /\ req[s].genCalls = 0
               /\ req[s].upload = "none"
               /\ req[s].indexTask = "none"
        /\ (req[s].pc = "returned" /\ req[s].source = "api")
            => req[s].uploadPromise # "none"

C9_Witness ==
    \E s \in Slots, o \in Slots :
        /\ req[s].pc = "returned" /\ req[s].source = "r2"
        /\ req[o].pc = "returned" /\ req[o].source = "api"
\* objects of the store under the folder of a language
StoredUnder(language) ==
    { k \in DOMAIN store : k.lang = language /\ store[k] # NoDoc }

\* the listing call could not use the index: the GET failed, or the
\* document is missing, unparsable, without items or empty
IndexUnusable ==
    \/ list.fetch = "unreachable"
    \/ indexDoc.kind # "list"
    \/ Len(indexDoc.items) = 0

\* C8 as claimed (index resilience): a listing that finds the index missing,
\* unparsable, without an items list or unreachable does not throw and
\* returns the empty sequence.
C8_EmptyWhenIndexUnusable ==
    (list.pc = "done" /\ IndexUnusable)
        => (~list.thrown /\ list.result = <<>>)

\* C8 as amended: the listing never throws; when the index GET is answered
\* with a document that has no items list it returns the empty sequence;
\* when the index is missing, unparsable, empty or its GET fails it returns
\* the raw store listing of the language folder, one entry per stored
\* artifact, which is empty exactly when that listing fails or the folder
\* holds no artifact.
C8_ListingResilience ==
    list.pc = "done"
        => /\ ~list.thrown
           /\ IndexUnusable
                => IF list.fetch = "answered" /\ indexDoc.kind = "noitems"
                   THEN list.result = <<>> /\ list.listing = "none"
                   ELSE IF list.listing = "error"
                   THEN list.result = <<>>
                   ELSE /\ list.listing = "ok"
                        /\ { list.result[i].key : i \in 1..Len(list.result) }
                              = StoredUnder(list.language)
                        /\ Len(list.result) = Cardinality(StoredUnder(list.language))

C8_Witness ==
    /\ list.pc = "done"
    /\ indexDoc.kind \in {"missing", "corrupt"}
    /\ list.listing = "ok"
    /\ Len(list.result) = 2

\* C10 (the index is advisory for reads by key): whenever the store answers
\* the GET of fetchSavedComparisonByKey(k) and a body exists at k, the call
\* returns that body with source 'r2', whatever the index document is
\* (missing, unparsable, without items, or a list with or without an entry
\* for k); it fails only on an unanswered GET or a missing body.
C10_FetchByKeyIgnoresIndex ==
    byKey.pc # "idle"
        => /\ (byKey.response # "unreachable" /\ store[byKey.key] # NoDoc)
                => /\ byKey.pc = "returned"
                   /\ byKey.data = store[byKey.key]
                   /\ byKey.source = "r2"
           /\ byKey.pc = "failed"
                => (byKey.response = "unreachable" \/ store[byKey.key] = NoDoc)

C10_Witness ==
    /\ byKey.pc = "returned"
    /\ byKey.data = store[byKey.key]
    /\ \/ indexDoc.kind = "corrupt"
       \/ /\ indexDoc.kind = "list"
          /\ ItemsAt(indexDoc, byKey.key) = {}
C12_ReadErrorsAreMisses ==
    /\ [](\A s \in Slots :
            req[s].pc = "failed"
            => req[s].err \in GenFailures /\ req[s].genCalls = 1)
    /\ [][\A s \in Slots :
            (req[s].pc = "lookup" /\ req'[s] # req[s])
            => /\ req'[s].pc \in {"returned", "generating"}
               /\ req'[s].err = "none"
               /\ req'[s].pc = "generating"
                  => /\ req'[s].genCalls = 1
                     /\ req'[s].miss \in {"not_found"} \cup ReadFailures
               /\ req'[s].pc = "returned" => req'[s].source = "r2"]_vars

C12_Witness ==
    \E s \in Slots, o \in Slots :
        /\ req[s].pc = "generating" /\ req[s].miss = "unparsable"
        /\ req[o].pc = "generating" /\ req[o].miss = "server_error"

\* ------------------------------------------------------ key derivation
\* The key derivation of fetchComparisonData on its own: a first call on one
\* of a few fixed texts, then a second call on any text of at most MaxLen
\* characters over KeyAlphabet.
MaxLen == 4
KeyAlphabet == {"G", " ", "-", "_", "U+4E2D"}
TextExample == <<"G","D","P"," ","p","e","r"," ","c","a","p","i","t","a">>
KeyProbes == {<<"g">>, <<"g","_","g">>, <<"U+4E2D">>, TextGdp2, TextExample}
KeyTexts == UNION {[1..n -> KeyAlphabet] : n \in 0..MaxLen} \cup KeyProbes

InitKey ==
    /\ store = [k \in Keys |-> NoDoc]
    /\ indexDoc = IndexMissing
    /\ now = 0
    /\ req = [s \in Slots |-> IdleReq]
    /\ archived = {}
    /\ isAdmin = TRUE
    /\ list = IdleList
    /\ byKey = IdleByKey
    /\ calc = IdleCalc
    /\ ui = IdleUi

\* first evaluation of the first lines of fetchComparisonData
DeriveKey(q, l) ==
    /\ calc.op = "none"
    /\ calc' = [op |-> "key", calls |-> 1, query |-> q, language |-> l,
                key |-> fileKey(q, l),
                prevQuery |-> <<>>, prevLanguage |-> l,
                prevKey |-> fileKey(q, l)]
    /\ UNCHANGED <<store, indexDoc, now, req, archived, isAdmin, list, byKey, ui>>

\* second evaluation, the first one being remembered
DeriveKeyAgain(q, l) ==
    /\ calc.op = "key"
    /\ calc.calls = 1
    /\ calc' = [op |-> "key", calls |-> 2, query |-> q, language |-> l,
                key |-> fileKey(q, l),
                prevQuery |-> calc.query, prevLanguage |-> calc.language,
                prevKey |-> calc.key]
    /\ UNCHANGED <<store, indexDoc, now, req, archived, isAdmin, list, byKey, ui>>

NextKey ==
    \/ \E q \in KeyProbes, l \in Languages : DeriveKey(q, l)
    \/ \E q \in KeyTexts, l \in Languages : DeriveKeyAgain(q, l)

SpecKey == InitKey /\ [][NextKey]_vars

\* the normalisation as the claim words it, in one pass over the trimmed,
\* lower-cased text: the first blank of a run gives '_', a character of
\* [a-z0-9_] or a CJK character is kept, anything else is dropped
RECURSIVE RefScan(_, _)
RefScan(t, i) ==
    IF i > Len(t) THEN <<>>
    ELSE (IF t[i] \in SpaceChars
          THEN IF i > 1 /\ t[i-1] \in SpaceChars THEN <<>> ELSE <<"_">>
          ELSE IF t[i] \in KeyChars THEN <<t[i]>> ELSE <<>>)
         \o RefScan(t, i + 1)

RefNormalize(text) == RefScan(ToLowerCase(Trim(text)), 1)

\* C13: the key is the folder, the locale and the normalised text and nothing
\* else; two calls with the same locale whose texts normalise to the same
\* string (the same text included) give the same key; "GDP per capita" under
\* "zh" gives sino-pulse/v1/zh/gdp_per_capita.json
C13_KeyDeterminism ==
    calc.op = "key"
    => /\ calc.key = [folder |-> "sino-pulse/v1", lang |-> calc.language,
                      name |-> RefNormalize(calc.query)]
       /\ (/\ calc.calls = 2
           /\ calc.language = calc.prevLanguage
           /\ RefNormalize(calc.query) = RefNormalize(calc.prevQuery))
          => calc.key = calc.prevKey
       /\ (calc.query = TextExample /\ calc.language = "zh")
          => calc.key = [folder |-> "sino-pulse/v1", lang |-> "zh",
                         name |-> <<"g","d","p","_","p","e","r","_",
                                    "c","a","p","i","t","a">>]

C13_Witness ==
    /\ calc.op = "key"
    /\ calc.calls = 2
    /\ calc.prevQuery = <<"g","_","g">>
    /\ calc.query = <<"G"," "," ","G">>
    /\ calc.language = calc.prevLanguage
    /\ calc.key = calc.prevKey

\* C14: a generation response with an empty sample sequence is rejected: no
\* call returns such a document as generated, and no such document is stored
\* under a key
C14_MalformedNeverServed ==
    /\ \A s \in Slots : req[s].source = "api" => req[s].data.data > 0
    /\ \A k \in Keys : store[k] # NoDoc => store[k].data > 0

\* C15: the step in which generation fails ends the call with that failure
\* after exactly one backend invocation, starts no write-back task, yields no
\* handle and leaves the store and the index as they were; a failed call
\* stays without tasks, so it never writes later either
C15_GenerationFailureNoSideEffect ==
    /\ [](\A s \in Slots :
            req[s].pc = "failed"
            => /\ req[s].genCalls = 1
               /\ req[s].uploadPromise = "none"
               /\ req[s].upload = "none" /\ req[s].uploadCalls = 0
               /\ req[s].indexTask = "none" /\ req[s].indexCalls = 0
               /\ req[s].data = NoDoc)
    /\ [][\A s \in Slots :
            (req[s].pc = "generating" /\ req'[s].pc = "failed")
            => /\ req'[s].err \in GenFailures
               /\ store' = store
               /\ indexDoc' = indexDoc
               /\ archived' = archived]_vars

C15_Witness ==
    \E s \in Slots, o \in Slots :
        /\ req[s].pc = "failed" /\ req[s].err = "empty_response"
        /\ req[s].genCalls = 1
        /\ req[o].pc = "failed" /\ req[o].err = "backend_error"
        /\ store[KeyOf(req[s])] # NoDoc

\* C16: when the user may not generate, the step that leaves the lookup of an
\* unforced call either returns the archived artifact with source 'r2', or
\* fails the call with a permission error, the backend not invoked and the
\* store and the index untouched
C16_GateAfterMiss ==
    [][\A s \in Slots :
          (~isAdmin /\ req[s].pc = "lookup" /\ req'[s] # req[s])
          => \/ /\ req'[s].pc = "returned"
                /\ req'[s].source = "r2"
                /\ req'[s].data = store[KeyOf(req[s])]
             \/ /\ req'[s].pc = "failed"
                /\ req'[s].err = "PERMISSION_DENIED"
                /\ req'[s].genCalls = 0
                /\ store' = store
                /\ indexDoc' = indexDoc]_vars

C18_ForcedRefreshBypassesArchive ==
    /\ [](\A s \in Slots :
            (isAdmin /\ req[s].forceRefresh)
            => /\ req[s].pc = "generating"
               /\ req[s].genCalls = 1
               /\ req[s].miss = "none"
               /\ req[s].source = "none"
               /\ req[s].data = NoDoc)
    /\ [][\A s \in Slots :
            /\ (isAdmin /\ req[s].forceRefresh /\ req'[s].pc = "returned")
               => /\ req'[s].source = "api"
                  /\ \E d \in GenDocs :
                        req'[s].data = FillTitles(d, req[s].language,
                                                 normalizedQuery(req[s].query))
                  /\ req'[s].upload = "pending"
                  /\ req'[s].genCalls = 1
            /\ (req[s].upload = "pending" /\ req'[s].upload = "ok")
               => store'[KeyOf(req[s])] = req[s].data]_vars

C18_Witness ==
    \E s \in Slots :
        /\ isAdmin
        /\ req[s].forceRefresh
        /\ req[s].pc = "generating"
        /\ KeyOf(req[s]) \in archived
        /\ store[KeyOf(req[s])] = DocFull

\* C19: fetchSavedComparisonByKey fails only when both read paths fail, that
\* is, when the object is absent or the authenticated endpoint is down too
C19_TwoTierRead ==
    byKey.pc = "failed"
    => (store[byKey.key] = NoDoc \/ byKey.s3 = "down")

\* ----------------------------------------------------------- title repair
\* the first entries of the catalogue, character by character
PRESET_QUERIES == <<
    [labelEn |->
        <<"G","D","P"," ","G","r","o","w","t","h"," ","(","U","S","D",")">>,
     labelZh |->
        <<"G","D","P"," ","U+589E","U+957F"," ","(","U+7F8E","U+5143",")">>,
     query |->
        <<"G","D","P"," ","(","G","r","o","s","s"," ","D","o","m","e","s","t","i",
        "c"," ","P","r","o","d","u","c","t",")"," ","i","n"," ","U","S","D"," ",
        "f","r","o","m"," ","1","9","4","5"," ","t","o"," ","2","0","2","4">>],
    [labelEn |->
        <<"G","D","P"," ","p","e","r"," ","C","a","p","i","t","a">>,
     labelZh |->
        <<"U+4EBA","U+5747"," ","G","D","P">>,
     query |->
        <<"G","D","P"," ","p","e","r"," ","c","a","p","i","t","a"," ","i","n"," ",
        "U","S","D"," ","f","r","o","m"," ","1","9","4","5"," ","t","o"," ","2",
        "0","2","4">>],
    [labelEn |->
        <<"D","i","s","p","o","s","a","b","l","e"," ","I","n","c","o","m","e">>,
     labelZh |->
        <<"U+4EBA","U+5747","U+53EF","U+652F","U+914D","U+6536","U+5165">>,
     query |->
        <<"A","n","n","u","a","l"," ","D","i","s","p","o","s","a","b","l","e"," ",
        "I","n","c","o","m","e"," ","p","e","r"," ","C","a","p","i","t","a"," ",
        "i","n"," ","U","S","D"," ","f","r","o","m"," ","1","9","4","5"," ","t",
        "o"," ","2","0","2","4">>],
    [labelEn |->
        <<"P","o","p","u","l","a","t","i","o","n"," ","G","r","o","w","t","h">>,
     labelZh |->
        <<"U+4EBA","U+53E3","U+589E","U+957F">>,
     query |->
        <<"T","o","t","a","l"," ","P","o","p","u","l","a","t","i","o","n"," ","f",
        "r","o","m"," ","1","9","4","5"," ","t","o"," ","2","0","2","4">>]
>>

NoPreset == [labelEn |-> <<>>, labelZh |-> <<>>, query |-> <<>>]

AlnumChars == SeqRange(LowerChars) \cup DigitChars

\* str.trim().toLowerCase().replace(/[^a-z0-9]+/g, '_')
normalizeKey(str) == ReplaceRunsNotIn(ToLowerCase(Trim(str)), AlnumChars, <<"_">>)

\* s.indexOf(sub) + 1: position of the first occurrence of sub in s, 0 if none
IndexOfSub(s, sub) ==
    LET at == { i \in 1..(Len(s) - Len(sub) + 1) :
                  SubSeq(s, i, i + Len(sub) - 1) = sub }
    IN IF at = {} THEN 0 ELSE CHOOSE i \in at : \A j \in at : i <= j

\* s.includes(sub)
Includes(s, sub) == IndexOfSub(s, sub) > 0

\* s.replace(sub, rep) with a string pattern: the first occurrence only
ReplaceFirst(s, sub, rep) ==
    LET i == IndexOfSub(s, sub)
    IN IF i = 0 THEN s
       ELSE SubSeq(s, 1, i - 1) \o rep \o SubSeq(s, i + Len(sub), Len(s))

\* PRESET_QUERIES.find(p => ...) over the entries whose positions are in at
FindPreset(at) ==
    IF at = {} THEN NoPreset
    ELSE PRESET_QUERIES[CHOOSE i \in at : \A j \in at : i <= j]

\* getSmartTitles, "1. Exact Preset Match" and "2. Fuzzy/Keyword Match"
matchedPreset(filename) ==
    LET coreKey == ReplaceFirst(filename, <<".","j","s","o","n">>, <<>>)
        normalizedCore == normalizeKey(coreKey)
        exact == FindPreset({ i \in 1..Len(PRESET_QUERIES) :
                     normalizeKey(PRESET_QUERIES[i].query) = normalizedCore })
    IN IF exact # NoPreset THEN exact
       ELSE IF \/ Includes(coreKey, <<"d","i","s","p","o","s","a","b","l","e",
                                      "_","i","n","c","o","m","e">>)
               \/ Includes(coreKey, <<"i","n","c","o","m","e","_","p","e","r",
                                      "_","c","a","p","i","t","a">>)
            THEN FindPreset({ i \in 1..Len(PRESET_QUERIES) :
                     Includes(PRESET_QUERIES[i].labelEn,
                              <<"D","i","s","p","o","s","a","b","l","e"," ",
                                "I","n","c","o","m","e">>) })
            ELSE NoPreset

\* /^[\x00-\x7F]+$/.test(t)
AsciiOnly(t) == t # <<>> /\ \A i \in 1..Len(t) : t[i] \notin CJKChars

\* a repair that puts the file name where no title is at hand
getSmartTitlesDefaulting(filename, rawTitleZh, rawTitleEn) ==
    LET m == matchedPreset(filename)
        isZhInvalid == rawTitleZh = <<>> \/ AsciiOnly(rawTitleZh)
    IN [titleZh |-> IF isZhInvalid /\ m # NoPreset THEN m.labelZh
                    ELSE rawTitleZh,
        titleEn |-> IF rawTitleEn # <<>> THEN rawTitleEn
                    ELSE IF m # NoPreset THEN m.labelEn
                    ELSE filename]

\* getSmartTitles; an absent (undefined) title is the empty text
getSmartTitles(filename, rawTitleZh, rawTitleEn) ==
    LET m == matchedPreset(filename)
        isZhInvalid == rawTitleZh = <<>> \/ AsciiOnly(rawTitleZh)
    IN [titleZh |-> IF isZhInvalid /\ m # NoPreset THEN m.labelZh
                    ELSE rawTitleZh,
        titleEn |-> IF rawTitleEn = <<>> /\ m # NoPreset THEN m.labelEn
                    ELSE rawTitleEn]

\* file names and raw titles the repair is called with
FileGdpPerCapita ==
    <<"g","d","p","_","p","e","r","_","c","a","p","i","t","a","_","i","n","_",
    "u","s","d","_","f","r","o","m","_","1","9","4","5","_","t","o","_","2",
    "0","2","4",".","j","s","o","n">>
FileGdpUpper ==
    <<"G","D","P","-","P","e","r","-","C","a","p","i","t","a"," ","i","n"," ",
    "U","S","D"," ","f","r","o","m"," ","1","9","4","5"," ","t","o"," ","2",
    "0","2","4",".","j","s","o","n">>
FilePopulation ==
    <<"t","o","t","a","l","_","p","o","p","u","l","a","t","i","o","n","_","f",
    "r","o","m","_","1","9","4","5","_","t","o","_","2","0","2","4",".","j",
    "s","o","n">>
FileGdpGrowth ==
    <<"g","d","p","_","g","r","o","s","s","_","d","o","m","e","s","t","i","c",
    "_","p","r","o","d","u","c","t","_","i","n","_","u","s","d","_","f","r",
    "o","m","_","1","9","4","5","_","t","o","_","2","0","2","4",".","j","s",
    "o","n">>
FileDisposable ==
    <<"a","n","n","u","a","l","_","d","i","s","p","o","s","a","b","l","e","_",
    "i","n","c","o","m","e","_","p","e","r","_","c","a","p","i","t","a","_",
    "i","n","_","u","s","d","_","f","r","o","m","_","1","9","4","5","_","t",
    "o","_","2","0","2","4",".","j","s","o","n">>
FileIncomeCn ==
    <<"i","n","c","o","m","e","_","p","e","r","_","c","a","p","i","t","a","_",
    "c","n",".","j","s","o","n">>
FileDisposableShort ==
    <<"d","i","s","p","o","s","a","b","l","e","_","i","n","c","o","m","e",".",
    "j","s","o","n">>
FileDisposableUpper ==
    <<"D","i","s","p","o","s","a","b","l","e","_","I","n","c","o","m","e",".",
    "j","s","o","n">>
FileGdp ==
    <<"g","d","p",".","j","s","o","n">>
FileCo2 ==
    <<"c","o","2","_","U+4E2D",".","j","s","o","n">>
FileJsonTwice ==
    <<"g","d","p",".","j","s","o","n",".","j","s","o","n">>
FilePopulationShort ==
    <<"t","o","t","a","l","_","p","o","p","u","l","a","t","i","o","n",".","j",
    "s","o","n">>
TitleFiles == {FileGdpPerCapita, FileGdpUpper, FilePopulation,
               FileGdpGrowth, FileDisposable, FileIncomeCn,
               FileDisposableShort, FileDisposableUpper, FileGdp,
               FileCo2, FileJsonTwice, FilePopulationShort}
RawTitlesZh == {<<>>, <<"G","D","P">>, <<"U+4E2D","U+7F8E">>, <<"G","U+4E2D">>}
RawTitlesEn == {<<>>, <<"G","D","P">>, <<"S","i","n","o","-","U","S">>}

\* one call of getSmartTitles, as made for each entry of a listing
RepairTitles(f, zh, en) ==
    /\ calc.op \in {"none", "titles"}
    /\ calc' = [op |-> "titles", filename |-> f,
                rawTitleZh |-> zh, rawTitleEn |-> en,
                out |-> getSmartTitles(f, zh, en)]
    /\ UNCHANGED <<store, indexDoc, now, req, archived, isAdmin, list, byKey, ui>>

NextTitles ==
    \E f \in TitleFiles, zh \in RawTitlesZh, en \in RawTitlesEn :
        RepairTitles(f, zh, en)

SpecTitles == InitKey /\ [][NextTitles]_vars

\* the catalogue entry a file name stands for, told without the service's
\* matching code: the file whose name, read as words, is the query of an
\* entry, or that names disposable income or income per capita in lower case
C20_Catalogued(f) ==
    IF f \in {FileGdpPerCapita, FileGdpUpper} THEN PRESET_QUERIES[2]
    ELSE IF f = FileGdpGrowth THEN PRESET_QUERIES[1]
    ELSE IF f = FilePopulation THEN PRESET_QUERIES[4]
    ELSE IF f \in {FileDisposable, FileIncomeCn, FileDisposableShort}
         THEN PRESET_QUERIES[3]
    ELSE NoPreset

\* C20: a file name that matches no catalogue entry gets its raw titles back
\* unchanged; in every case each returned title is the raw title or the
\* label, in that language, of the entry the file name matches
C20_TitleRepairNeverInvents ==
    calc.op = "titles"
    => LET m == C20_Catalogued(calc.filename)
       IN /\ m = NoPreset
             => /\ calc.out.titleZh = calc.rawTitleZh
                /\ calc.out.titleEn = calc.rawTitleEn
          /\ calc.out.titleZh \in {calc.rawTitleZh}
                \cup (IF m = NoPreset THEN {} ELSE {m.labelZh})
          /\ calc.out.titleEn \in {calc.rawTitleEn}
                \cup (IF m = NoPreset THEN {} ELSE {m.labelEn})

C20_Witness ==
    /\ calc.op = "titles"
    /\ calc.filename = FileIncomeCn
    /\ calc.rawTitleZh = <<"G","D","P">>
    /\ calc.rawTitleEn = <<>>
    /\ calc.out.titleZh = PRESET_QUERIES[3].labelZh
    /\ calc.out.titleEn = PRESET_QUERIES[3].labelEn

\* C21: the document an upsert is about to write back holds every entry the
\* stored index holds at the moment of the read, the entry of the same key
\* apart, also when the read fails; so the write never replaces the index by
\* a document of the new entry alone
C21_UpsertKeepsOtherEntries ==
    [][\A s \in Slots :
          (/\ req[s].indexTask = "read"
           /\ req'[s].indexTask = "write"
           /\ indexDoc.kind = "list")
          => \A i \in 1..Len(indexDoc.items) :
                indexDoc.items[i].key # req[s].newItem.key
                => \E j \in 1..Len(req'[s].index) :
                      req'[s].index[j] = indexDoc.items[i]]_vars

\* C22: when an upsert has written the index, no entry of the stored index
\* under another key carries the title of the new entry
C22_TitleDeduplication ==
    [][\A s \in Slots :
          (/\ req[s].indexTask = "write"
           /\ req'[s].indexTask = "done_ok")
          => \A i \in 1..Len(indexDoc'.items) :
                indexDoc'.items[i].key # req[s].newItem.key
                => indexDoc'.items[i].titleEn # req[s].newItem.titleEn]_vars

\* C23: whatever the interleaving of two write-backs, a body whose upload
\* succeeded is in the store and is a hit for a lookup, no step removes a
\* body from the store, and each successful index write leaves the entry of
\* its own key in the stored index (so an entry another writer has dropped
\* is back after the next successful upsert for its key)
C23_LostUpdateLosesNoArtifact ==
    /\ [](\A s \in Slots :
            req[s].upload = "ok"
            => /\ store[KeyOf(req[s])] # NoDoc
               /\ Truthy(store[KeyOf(req[s])]))
    /\ [][/\ \A k \in Keys : store[k] # NoDoc => store'[k] # NoDoc
          /\ \A s \in Slots :
                (req[s].indexTask = "write" /\ req'[s].indexTask = "done_ok")
                => /\ indexDoc'.kind = "list"
                   /\ \E i \in 1..Len(indexDoc'.items) :
                         indexDoc'.items[i] = req[s].newItem]_vars

\* the lost update: both writers are done and have succeeded in both tasks,
\* both bodies are stored, and the index lacks the entry of one of them
C23_Witness ==
    \E s \in Slots, o \in Slots :
        /\ KeyOf(req[s]) # KeyOf(req[o])
        /\ req[s].upload = "ok" /\ req[s].indexTask = "done_ok"
        /\ req[o].upload = "ok" /\ req[o].indexTask = "done_ok"
        /\ store[KeyOf(req[s])] = req[s].data
        /\ store[KeyOf(req[o])] = req[o].data
        /\ indexDoc.kind = "list"
        /\ ItemsAt(indexDoc, KeyOf(req[s])) # {}
        /\ ItemsAt(indexDoc, KeyOf(req[o])) = {}

\* C24: the store changes only in the step of a successful upload, which
\* puts the document of that call, whole, under its key; and when two calls
\* for the same text and locale have both generated and both ended their
\* write-backs with success, the body under the key is the document of one
\* of the two and the index holds exactly one entry for the key
C24_SameKeyLastWriterWins ==
    /\ [][/\ store' # store
              => \E s \in Slots : /\ req[s].upload = "pending"
                                  /\ req'[s].upload = "ok"
          /\ \A s \in Slots :
                (req[s].upload = "pending" /\ req'[s].upload = "ok")
                => /\ store'[KeyOf(req[s])] = req[s].data
                   /\ \A k \in Keys \ {KeyOf(req[s])} :
                         store'[k] = store[k]]_vars
    /\ [](\A s \in Slots, o \in Slots :
            (/\ s # o
             /\ KeyOf(req[s]) = KeyOf(req[o])
             /\ req[s].upload = "ok" /\ req[s].indexTask = "done_ok"
             /\ req[o].upload = "ok" /\ req[o].indexTask = "done_ok")
            => /\ store[KeyOf(req[s])] \in {req[s].data, req[o].data}
               /\ indexDoc.kind = "list"
               /\ Cardinality(ItemsAt(indexDoc, KeyOf(req[s]))) = 1)

C24_Witness ==
    \E s \in Slots, o \in Slots :
        /\ s # o
        /\ KeyOf(req[s]) = KeyOf(req[o])
        /\ req[s].data # req[o].data
        /\ req[s].miss = "none" /\ req[o].miss = "none"
        /\ req[s].upload = "ok" /\ req[s].indexTask = "done_ok"
        /\ req[o].upload = "ok" /\ req[o].indexTask = "done_ok"
        /\ store[KeyOf(req[s])] = req[o].data
        /\ Cardinality(ItemsAt(indexDoc, KeyOf(req[s]))) = 1
        /\ indexDoc.items[1].titleEn = req[s].data.titleEn

\* C25: the handle is rejected exactly when the upload of the artifact is;
\* a step in which updateLibraryIndex fails (SDK load, read, parse, write)
\* ends the index task without an error of the call, leaves the returned
\* artifact in place and rejects the handle only if the upload has failed
C25_IndexingNeverThrows ==
    /\ [](\A s \in Slots :
            /\ req[s].uploadPromise = "failed" <=> req[s].upload = "failed"
            /\ req[s].indexTask = "done_err"
               => req[s].pc = "returned" /\ req[s].err = "none")
    /\ [][\A s \in Slots :
            (/\ req[s].indexTask \in {"read", "write"}
             /\ req'[s].indexTask = "done_err")
            => /\ req'[s].uploadPromise = "failed" <=> req[s].upload = "failed"
               /\ req'[s].pc = req[s].pc
               /\ req'[s].data = req[s].data
               /\ req'[s].source = "api"
               /\ indexDoc' = indexDoc]_vars

C25_Witness ==
    \E s \in Slots, o \in Slots :
        /\ req[s].indexTask = "done_err"
        /\ req[s].upload = "pending"
        /\ req[s].uploadPromise = "pending"
        /\ req[o].indexTask = "done_err"
        /\ req[o].upload = "ok"
        /\ req[o].uploadPromise = "synced"
        /\ indexDoc.kind = "corrupt"

\* C30: every entry a finished listing returns has its key in the folder of
\* the language asked for, and the entries come in descending order of
\* their last modification
C30_ListingScopedToLocale ==
    list.pc = "done"
    => /\ \A i \in 1..Len(list.result) :
             /\ list.result[i].key.folder = DATA_FOLDER
             /\ list.result[i].key.lang = list.language
       /\ \A i \in 1..Len(list.result), j \in 1..Len(list.result) :
             i < j => list.result[i].lastModified >= list.result[j].lastModified

\* ------------------------------------------------------------------ App
\* The page component: its state and the two loaders.  The service is seen
\* from outside: a fetchComparisonData call returns a stored document with
\* source 'r2' (never when forced), or a generated one with source 'api' and
\* an upload promise, or throws.
UiLanguage == "zh"
UiKeys == { fileKey(q, UiLanguage) : q \in Texts }

\* the characters of the titles of the documents
TitleText(t) ==
    IF t = "T1" THEN <<"T","1">>
    ELSE IF t = "T2" THEN <<"T","2">>
    ELSE IF t = "Z1" THEN <<"U+4E2D","U+7F8E">>
    ELSE IF t = "untitled" THEN <<"u","n","t","i","t","l","e","d">>
    ELSE <<>>

\* (data.titleEn || data.title || 'untitled')
\*     .replace(/[^a-zA-Z0-9]/g, '_').toLowerCase()
\* the text is never empty, so the comparison_${Date.now()} name is not used
safeTitle(d) ==
    LET t == TitleText(OrElse(d.titleEn, OrElse(d.title, "untitled")))
    IN ToLowerCase([i \in 1..Len(t) |->
                      IF t[i] \in SeqRange(LowerChars) \cup SeqRange(UpperChars)
                                    \cup DigitChars
                      THEN t[i] ELSE "_"])

\* `sino-pulse/v1/${finalSafeTitle}.json`: no language folder in this path
derivedKey(d) == [folder |-> "sino-pulse/v1", lang |-> "", name |-> safeTitle(d)]

UiFree(c) == ui.calls[c].pc \in {"idle", "done"}
UiLowestFree(c) ==
    /\ UiFree(c)
    /\ \A o \in UiSlots : UiFree(o) => UiSlotNo(c) <= UiSlotNo(o)

\* loadData up to the await of fetchComparisonData
LoadData(c, q, f) ==
    /\ UiLowestFree(c)
    /\ ui' = [ui EXCEPT
                !.data = IF q # ui.currentQuery
                         THEN [doc |-> NoDoc, source |-> "none"] ELSE @,
                !.loading = TRUE,
                !.error = FALSE,
                !.syncState = "idle",
                !.currentQuery = q,
                !.activeItemKey = NoKey,
                !.latest = c,
                !.calls[c] = [IdleUiCall EXCEPT !.pc = "fetching",
                                                !.kind = "load",
                                                !.query = q,
                                                !.forceRefresh = f,
                                                !.key = fileKey(q, UiLanguage)]]
    /\ UNCHANGED <<store, indexDoc, now, req, archived, isAdmin, list, byKey, calc>>

\* loadData after the await: the try block and the finally
LoadDataReturn(c, src, d) ==
    LET call == ui.calls[c]
        result == FillTitles(d, UiLanguage, normalizedQuery(call.query))
    IN /\ call.pc = "fetching"
       /\ call.kind = "load"
       /\ src = "r2" => ~call.forceRefresh
       /\ ui' = [ui EXCEPT
                   !.data = [doc |-> result, source |-> src],
                   !.activeItemKey = derivedKey(result),
                   !.syncState = IF src = "api" THEN "syncing" ELSE @,
                   !.loading = FALSE,
                   !.calls[c] = [call EXCEPT
                                   !.pc = IF src = "api" THEN "uploading"
                                          ELSE "done",
                                   !.result = result,
                                   !.source = src]]
       /\ UNCHANGED <<store, indexDoc, now, req, archived, isAdmin, list, byKey, calc>>

\* loadData after the await: the catch block and the finally
LoadDataThrow(c) ==
    LET call == ui.calls[c]
    IN /\ call.pc = "fetching"
       /\ call.kind = "load"
       /\ ui' = [ui EXCEPT
                   !.error = TRUE,
                   !.loading = FALSE,
                   !.calls[c] = [call EXCEPT !.pc = "done", !.source = "throw"]]
       /\ UNCHANGED <<store, indexDoc, now, req, archived, isAdmin, list, byKey, calc>>

\* uploadPromise.then(...).catch(...) of a loadData call
UploadSettled(c, ok) ==
    LET call == ui.calls[c]
    IN /\ call.pc = "uploading"
       /\ ui' = [ui EXCEPT
                   !.syncState = IF ok THEN "success" ELSE "error",
                   !.data = IF /\ ok
                               /\ ui.data.doc # NoDoc
                               /\ ui.data.doc.titleEn = call.result.titleEn
                            THEN [@ EXCEPT !.source = "r2"] ELSE @,
                   !.calls[c] = [call EXCEPT !.pc = "done"]]
       /\ UNCHANGED <<store, indexDoc, now, req, archived, isAdmin, list, byKey, calc>>

\* loadSavedItem up to the await of fetchSavedComparisonByKey
LoadSavedItem(c, k) ==
    /\ UiLowestFree(c)
    /\ ~(k = ui.activeItemKey /\ ui.data.doc # NoDoc)
    /\ ui' = [ui EXCEPT
                !.activeItemKey = k,
                !.data = [doc |-> NoDoc, source |-> "none"],
                !.loading = TRUE,
                !.error = FALSE,
                !.syncState = "idle",
                !.latest = c,
                !.calls[c] = [IdleUiCall EXCEPT !.pc = "fetching",
                                                !.kind = "saved",
                                                !.key = k]]
    /\ UNCHANGED <<store, indexDoc, now, req, archived, isAdmin, list, byKey, calc>>

\* loadSavedItem after the await: try or catch, then the finally
LoadSavedReturn(c, ok, d) ==
    LET call == ui.calls[c]
        result == FillTitles(d, UiLanguage, call.key.name)
    IN /\ call.pc = "fetching"
       /\ call.kind = "saved"
       /\ ui' = IF ok
                THEN [ui EXCEPT
                        !.data = [doc |-> result, source |-> "r2"],
                        !.currentQuery =
                            TitleText(OrElse(result.titleEn, result.title)),
                        !.loading = FALSE,
                        !.calls[c] = [call EXCEPT !.pc = "done",
                                                  !.result = result,
                                                  !.source = "r2"]]
                ELSE [ui EXCEPT
                        !.error = TRUE,
                        !.loading = FALSE,
                        !.calls[c] = [call EXCEPT !.pc = "done",
                                                  !.source = "throw"]]
       /\ UNCHANGED <<store, indexDoc, now, req, archived, isAdmin, list, byKey, calc>>

NextUi ==
    \/ \E c \in UiSlots, q \in Texts, f \in BOOLEAN : LoadData(c, q, f)
    \/ \E c \in UiSlots, src \in {"r2", "api"}, d \in GenDocs :
          LoadDataReturn(c, src, d)
    \/ \E c \in UiSlots : LoadDataThrow(c)
    \/ \E c \in UiSlots, ok \in BOOLEAN : UploadSettled(c, ok)
    \/ \E c \in UiSlots, k \in UiKeys : LoadSavedItem(c, k)
    \/ \E c \in UiSlots, ok \in BOOLEAN, d \in GenDocs :
          LoadSavedReturn(c, ok, d)

SpecUi == InitKey /\ [][NextUi]_vars

\* C26: when no loader is awaiting its fetch any more and the request issued
\* last has delivered an artifact, the data state holds that artifact, and
\* currentQuery (for loadData) or activeItemKey (for loadSavedItem) is that
\* of the same request
C26_DisplayedIsLatest ==
    (/\ \A c \in UiSlots : ui.calls[c].pc # "fetching"
     /\ ui.latest # "none"
     /\ ui.calls[ui.latest].source \in {"r2", "api"})
    => /\ ui.data.doc = ui.calls[ui.latest].result
       /\ ui.calls[ui.latest].kind = "load"
          => ui.currentQuery = ui.calls[ui.latest].query
       /\ ui.calls[ui.latest].kind = "saved"
          => ui.activeItemKey = ui.calls[ui.latest].key

\* C27: only a step of the request issued last changes syncState, and it
\* moves it from idle to syncing or from syncing to success or error (or
\* back to idle when the request is issued); when the request issued last
\* was served from the archive and nothing is being fetched, syncState is
\* idle
C27_SyncStateOfDisplayed ==
    /\ [](( /\ \A c \in UiSlots : ui.calls[c].pc # "fetching"
            /\ ui.latest # "none"
            /\ ui.calls[ui.latest].source = "r2")
          => ui.syncState = "idle")
    /\ [][\A c \in UiSlots :
            (ui'.calls[c] # ui.calls[c] /\ ui'.syncState # ui.syncState)
            => /\ c = ui'.latest
               /\ <<ui.syncState, ui'.syncState>> \in
                     {<<"idle", "syncing">>, <<"syncing", "success">>,
                      <<"syncing", "error">>, <<"syncing", "idle">>,
                      <<"success", "idle">>, <<"error", "idle">>}]_vars

\* C28: loading is true exactly while some loadData or loadSavedItem call is
\* awaiting its fetch
C28_LoadingTracksInFlight ==
    ui.loading <=> \E c \in UiSlots : ui.calls[c].pc = "fetching"

\* C29: the step in which loadData receives an artifact, stored or generated,
\* sets activeItemKey to the key under which fetchComparisonData read or
\* wrote it
C29_ActiveKeyIsStorageKey ==
    [][\A c \in UiSlots :
          (/\ ui.calls[c].pc = "fetching"
           /\ ui.calls[c].kind = "load"
           /\ ui'.calls[c].source \in {"r2", "api"})
          => ui'.activeItemKey = fileKey(ui.calls[c].query, UiLanguage)]_vars

====
